---- MODULE Spec2Model ----
(***************************************************************************)
(* EfsTA: global analysis of time-resolved spectra.                        *)
(*                                                                         *)
(* The module models the class Model of src/Model.py: the custom-topology  *)
(* codec (getM_lin / regenM), the kinetic matrix builder (getK), the       *)
(* bounds policy (setTauBounds / getTauBounds) and the fit driver          *)
(* (findTau_fit with the getDifference callback of the minimizer).         *)
(*                                                                         *)
(* Numbers are exact rationals <<numerator, denominator>>, denominator > 0 *)
(* and the fraction in lowest terms, so that 1/t is computed and not       *)
(* assumed.  Python's None is the empty tuple.  An attribute that was      *)
(* never assigned is Unset, an assigned one is the one-element tuple       *)
(* holding its value.                                                      *)
(***************************************************************************)
EXTENDS Integers, Sequences, FiniteSets, TLC

----------------------------------------------------------------------------
(* Bounds of the model *)

\* largest species count of a custom matrix
MaxN == 3
\* largest number of populated cells of a custom matrix
MaxCells == 2
\* largest lifetime in a cell of a custom matrix or tried by the minimizer
MaxTau == 2
\* largest length of a flat lifetime vector handed to regenM / getK
MaxFlat == 3
\* largest number of entries of preparam
MaxParams == 3
\* largest number of evaluations of getDifference by one minimizer run
MaxEvals == 2
\* largest number of delays of the windowed data
MaxDelays == 3
\* number of wavelengths of the windowed data
MaxLambdas == 2
\* largest number of components of a basis built on its own
MaxRows == 2

----------------------------------------------------------------------------
(* Exact rational arithmetic *)

Abs(x) == IF x < 0 THEN -x ELSE x

RECURSIVE GCD(_, _)
GCD(a, b) == IF b = 0 THEN a ELSE GCD(b, a % b)

Rat(num, den) ==
    LET g == GCD(Abs(num), Abs(den))
        s == IF den < 0 THEN -1 ELSE 1
    IN  <<(s * num) \div g, (s * den) \div g>>

FromInt(i) == <<i, 1>>
Zero == <<0, 1>>
\* the float inf that 1/0.0 yields
Inf == <<1, 0>>
\* the floats -inf and nan
NegInf == <<-1, 0>>
NaN == <<0, 0>>
NoneVal == <<>>
Unset == <<>>

\* a + b over the least common denominator, which keeps the integers small
RatAdd(a, b) ==
    LET g == GCD(a[2], b[2])
    IN  Rat(a[1] * (b[2] \div g) + b[1] * (a[2] \div g), (a[2] \div g) * b[2])
RatNeg(a) == <<-a[1], a[2]>>
RatSub(a, b) == RatAdd(a, RatNeg(b))
RatAbs(a) == <<Abs(a[1]), a[2]>>
\* a * b of finite a and b, the common factors cancelled before the product
RatMul(a, b) ==
    LET g1 == GCD(Abs(a[1]), b[2])
        g2 == GCD(Abs(b[1]), a[2])
    IN  Rat((a[1] \div g1) * (b[1] \div g2), (a[2] \div g2) * (b[2] \div g1))
RatLeq(a, b) == a[1] * b[2] <= b[1] * a[2]
RatLess(a, b) == a[1] * b[2] < b[1] * a[2]

\* 1/x of numpy: inf when x is 0
Recip(a) ==
    IF a[1] = 0 THEN Inf
    ELSE IF a[1] > 0 THEN <<a[2], a[1]>> ELSE <<-a[2], -a[1]>>

\* np.divide(ones, x, out=zeros, where=x!=0): 1/x, and 0 where x is 0
GuardedDivide(a) == IF a # Zero THEN Recip(a) ELSE Zero

\* a / b of numpy floats for a finite a and b >= 0: a warning and inf, -inf
\* or nan when b is 0
FloatDiv(a, b) ==
    IF b = Zero
    THEN IF a[1] = 0 THEN NaN ELSE IF a[1] > 0 THEN Inf ELSE NegInf
    ELSE IF b = Inf THEN Zero
    ELSE Rat(a[1] * b[2], a[2] * b[1])

\* np.exp(x) as <<e, numerator, denominator>>: the float itself when e is 0
\* (1 at 0, 0 at -inf, inf at inf, nan at nan), exp of the fraction when e
\* is 1
Exp(x) ==
    IF x = Zero THEN <<0, 1, 1>>
    ELSE IF x = NegInf THEN <<0, 0, 1>>
    ELSE IF x = Inf THEN <<0, 1, 0>>
    ELSE IF x = NaN THEN <<0, 0, 0>>
    ELSE <<1, x[1], x[2]>>

RECURSIVE SumSeq(_)
SumSeq(s) == IF s = <<>> THEN Zero ELSE RatAdd(Head(s), SumSeq(Tail(s)))

----------------------------------------------------------------------------
(* Square matrices: a sequence of rows, cells scanned in row-major order *)

Dim(m) == Len(m)
CellSeq(d) == [c \in 1..(d * d) |-> <<((c - 1) \div d) + 1, ((c - 1) % d) + 1>>]
CellSet(d) == (1..d) \X (1..d)
ZeroMat(d) == [i \in 1..d |-> [j \in 1..d |-> Zero]]

----------------------------------------------------------------------------
(* CustomTopologyCodec: getM_lin *)

\* getM_lin_k with the test of the diagonal turned around: only the diagonal
\* cell of the last species is cleared
getM_lin_k_lastOnly(tau_guess) ==
    LET d == Dim(tau_guess)
    IN  [i \in 1..d |-> [j \in 1..d |->
            IF i = j /\ i = d THEN Zero ELSE GuardedDivide(tau_guess[i][j])]]

\* k_guess after the scan: guarded 1/tau, the diagonal of every species but
\* the last cleared
getM_lin_k(tau_guess) ==
    LET d == Dim(tau_guess)
    IN  [i \in 1..d |-> [j \in 1..d |->
            IF i = j /\ i # d THEN Zero ELSE GuardedDivide(tau_guess[i][j])]]

\* the mask M_ones that getM_lin stores: 1 where k_guess is not 0
getM_lin_ones(tau_guess) ==
    LET k == getM_lin_k(tau_guess)
        d == Dim(tau_guess)
    IN  [i \in 1..d |-> [j \in 1..d |-> IF k[i][j] # Zero THEN 1 ELSE 0]]

\* the flat vector getM_lin returns: 1/abs(k) of the cells kept, in scan order
getM_lin(tau_guess) ==
    LET k == getM_lin_k(tau_guess)
        kept == SelectSeq(CellSeq(Dim(tau_guess)),
                          LAMBDA p : k[p[1]][p[2]] # Zero)
        M_lin == [a \in 1..Len(kept) |-> RatAbs(k[kept[a][1]][kept[a][2]])]
    IN  [a \in 1..Len(M_lin) |-> Recip(M_lin[a])]

----------------------------------------------------------------------------
(* CustomTopologyCodec: regenM *)

\* regenCell without the update of the diagonal
regenCell_noDiagonal(M, i, j, d, v) == [M EXCEPT ![i][j] = v]

\* regenCell with the row tested in place of the column
regenCell_rowTest(M, i, j, d, v) ==
    LET M1 == [M EXCEPT ![i][j] = v]
    IN  IF i # d THEN [M1 EXCEPT ![j][j] = RatSub(M1[j][j], v)] ELSE M1

\* one step of the scan of regenM: the cell <<i, j>> of a mask of d species
\* receives the value v
regenCell(M, i, j, d, v) ==
    LET M1 == [M EXCEPT ![i][j] = v]
    IN  IF j # d THEN [M1 EXCEPT ![j][j] = RatSub(M1[j][j], v)] ELSE M1

RECURSIVE regenScan(_, _, _, _, _)
regenScan(ones, tau_guess, c, a, M) ==
    LET d == Dim(ones)
        i == ((c - 1) \div d) + 1
        j == ((c - 1) % d) + 1
    IN  IF c > d * d
        THEN [err |-> "", ret |-> [M EXCEPT ![d][d] = RatNeg(M[d][d])]]
        ELSE IF ones[i][j] = 1
             THEN IF a + 1 > Len(tau_guess)
                  THEN [err |-> "IndexError", ret |-> <<>>]
                  ELSE regenScan(ones, tau_guess, c + 1, a + 1,
                                 regenCell(M, i, j, d, tau_guess[a + 1]))
             ELSE regenScan(ones, tau_guess, c + 1, a, M)

\* regenM(tau_guess) on an object whose attribute M_ones is ones (Unset when
\* getM_lin never ran)
regenM(ones, tau_guess) ==
    IF ones = Unset
    THEN [err |-> "AttributeError", ret |-> <<>>]
    ELSE regenScan(ones[1], tau_guess, 1, 0, ZeroMat(Dim(ones[1])))

----------------------------------------------------------------------------
(* KineticMatrixBuilder: getK *)

\* Models(k).getK(model) of the module models: the sequential chain
\* 1 -> 2 -> ... -> n with one species per rate
Models_getK(k) ==
    LET d == Len(k)
    IN  [i \in 1..d |-> [j \in 1..d |->
            IF i = j THEN RatNeg(k[j])
            ELSE IF i = j + 1 THEN k[j] ELSE Zero]]

\* the rates of a fixed topology: tau is a Python list, so tau != 0 is the
\* scalar True and the division is done at every entry
getK_rates(tau) == [a \in 1..Len(tau) |-> Recip(tau[a])]

\* the matrix K of a custom topology from the re-inflated lifetime matrix
getK_custom(Tau) ==
    [i \in 1..Dim(Tau) |-> [j \in 1..Dim(Tau) |-> GuardedDivide(Tau[i][j])]]

\* getK(tau): err, and the K and n it returns and stores
getK(mdl, ones, tau) ==
    IF mdl \in {"custom model", "custom matrix"}
    THEN LET r == regenM(ones, tau)
         IN  IF r.err # ""
             THEN [err |-> r.err, K |-> <<>>, n |-> 0]
             ELSE [err |-> "", K |-> getK_custom(r.ret), n |-> Dim(r.ret)]
    ELSE [err |-> "", K |-> Models_getK(getK_rates(tau)), n |-> Len(tau)]

----------------------------------------------------------------------------
(* BoundsPolicy: setTauBounds / getTauBounds *)

Eps == <<1, 100>>

NoneList(tau) == [i \in 1..Len(tau) |-> NoneVal]

\* setTauBounds_low replacing None only, a lower bound of 0 kept
setTauBounds_low_noneOnly(t_low, tau) ==
    LET l == IF t_low = <<>> THEN NoneList(tau) ELSE t_low
    IN  [i \in 1..Len(l) |-> IF l[i] = NoneVal THEN Eps ELSE l[i]]

\* the list tau_low that setTauBounds stores (and, when the caller's list is
\* not empty, the caller's list after the call)
setTauBounds_low(t_low, tau) ==
    LET l == IF t_low = <<>> THEN NoneList(tau) ELSE t_low
    IN  [i \in 1..Len(l) |-> IF l[i] = Zero \/ l[i] = NoneVal THEN Eps ELSE l[i]]

setTauBounds_high(t_high, tau) ==
    IF t_high = <<>> THEN NoneList(tau) ELSE t_high

Min(a, b) == IF a < b THEN a ELSE b

\* list(zip(a, b))
Zip(a, b) == [i \in 1..Min(Len(a), Len(b)) |-> <<a[i], b[i]>>]

\* getTauBounds reading the stored lists whenever they are set, the DAS
\* default used only without them
getTauBounds_storedFirst(mdl, t_low, t_high, tau) ==
    IF t_low # Unset /\ t_high # Unset
    THEN [err |-> "", bounds |-> Zip(t_low[1], t_high[1])]
    ELSE IF mdl = "0"
         THEN [err |-> "", bounds |-> [i \in 1..Len(tau) |-> <<Eps, NoneVal>>]]
         ELSE [err |-> "AttributeError", bounds |-> <<>>]

\* getTauBounds(tau): err and the list of pairs
getTauBounds(mdl, t_low, t_high, tau) ==
    IF mdl = "0"
    THEN [err |-> "", bounds |-> [i \in 1..Len(tau) |-> <<Eps, NoneVal>>]]
    ELSE IF t_low = Unset \/ t_high = Unset
         THEN [err |-> "AttributeError", bounds |-> <<>>]
         ELSE [err |-> "", bounds |-> Zip(t_low[1], t_high[1])]

----------------------------------------------------------------------------
(* Matrices of numbers: a sequence of rows of rationals *)

NRows(m) == Len(m)
NCols(m) == IF m = <<>> THEN 0 ELSE Len(m[1])

\* the tuple <<f[1], ..., f[n]>>, every entry computed once
RECURSIVE Listed(_, _)
Listed(f, n) == IF n = 0 THEN <<>> ELSE Append(Listed(f, n - 1), f[n])

\* the matrix of r rows and c columns with the entries f[i][j]
Matrix(f, r, c) == Listed([i \in 1..r |-> Listed(f[i], c)], r)

\* the sum f[1] + ... + f[n]
RECURSIVE SumTo(_, _)
SumTo(f, n) == IF n = 0 THEN Zero ELSE RatAdd(f[n], SumTo(f, n - 1))

\* m.T
Transpose(m) ==
    Matrix([j \in 1..NCols(m) |-> [i \in 1..NRows(m) |-> m[i][j]]],
           NCols(m), NRows(m))

\* a @ b of numpy: ValueError unless the columns of a are the rows of b
MatMulNum(a, b) ==
    IF NCols(a) # NRows(b)
    THEN [err |-> "ValueError", ret |-> <<>>]
    ELSE [err |-> "",
          ret |-> Matrix([i \in 1..NRows(a) |-> [j \in 1..NCols(b) |->
                    SumTo([l \in 1..NCols(a) |-> RatMul(a[i][l], b[l][j])],
                          NCols(a))]],
                         NRows(a), NCols(b))]

\* a - b, elementwise
MatSubNum(a, b) ==
    Matrix([i \in 1..NRows(a) |-> [j \in 1..NCols(a) |->
                RatSub(a[i][j], b[i][j])]],
           NRows(a), NCols(a))

\* m without row i and column j
Minor(m, i, j) ==
    Matrix([r \in 1..(NRows(m) - 1) |-> [c \in 1..(NCols(m) - 1) |->
                m[IF r < i THEN r ELSE r + 1][IF c < j THEN c ELSE c + 1]]],
           NRows(m) - 1, NCols(m) - 1)

Sign(i) == IF i % 2 = 0 THEN FromInt(1) ELSE FromInt(-1)

\* the determinant, expanded along the first row
RECURSIVE Det(_)
Det(m) ==
    IF NRows(m) = 0 THEN FromInt(1)
    ELSE SumTo([j \in 1..NCols(m) |->
                  RatMul(RatMul(Sign(1 + j), m[1][j]), Det(Minor(m, 1, j)))],
               NCols(m))

\* np.linalg.inv(m) of a square matrix: LinAlgError when m is singular
LinalgInv(m) ==
    LET d == Det(m)
    IN  IF d = Zero
        THEN [err |-> "LinAlgError", ret |-> <<>>]
        ELSE [err |-> "",
              ret |-> Matrix([i \in 1..NRows(m) |-> [j \in 1..NCols(m) |->
                        RatMul(RatMul(Sign(i + j), Det(Minor(m, j, i))),
                               Recip(d))]],
                             NRows(m), NCols(m))]

\* the squared Frobenius norm
Frobenius2(m) ==
    SumTo([i \in 1..NRows(m) |->
             SumTo([j \in 1..NCols(m) |-> RatMul(m[i][j], m[i][j])], NCols(m))],
          NRows(m))

\* calcD_tau taking spectra @ M.T for the amplitudes, the inverse left out
calcD_tau_noInverse(sp, Mb) == MatMulNum(sp, Transpose(Mb))

\* calcD_tau(tau): spectra @ M.T @ inv(M @ M.T)
calcD_tau(sp, Mb) ==
    LET res1 == MatMulNum(sp, Transpose(Mb))
        res2 == MatMulNum(Mb, Transpose(Mb))
    IN  IF res1.err # "" THEN res1
        ELSE LET inv == LinalgInv(res2.ret)
             IN  IF inv.err # "" THEN inv
                 ELSE MatMulNum(res1.ret, inv.ret)

\* calcA_tau(tau): calcD_tau(tau) @ M
calcA_tau(sp, Mb) ==
    LET D_tau == calcD_tau(sp, Mb)
    IN  IF D_tau.err # "" THEN D_tau ELSE MatMulNum(D_tau.ret, Mb)

----------------------------------------------------------------------------
(* State *)

VARIABLES
    \* the files of the folder handed to the Controller, and the attributes
    \* get_data set on the Controller from them
    listing, con,
    \* the construction of the Model: the values of one axis of the file,
    \* the caller's list of limits, the borders found for it, and the values
    \* initDatabyCSV kept
    axis, limits, borders, window,
    \* the spectra and the basis of a Model object as matrices of numbers,
    \* and the matrices calcD_tau and calcA_tau returned for them
    spectra_v, M_v, D_out, A_out,
    \* how far each entry of the flat vector of getM_lin lies from the cell
    \* it was taken from, in units in the last place of a float64
    ulps,
    \* the caller's arguments
    model, Kin, flatIn, preparam, in_low, in_high, C_0in,
    \* the windowed data of the object: the delay axis, and the spectra
    \* matrix kept as its shape
    delays, spectra,
    \* the caller's local M_lin (Controller.calcSAS)
    M_lin,
    \* attributes of the Model object
    M_ones, K, n, tau_low, tau_high, C_0, M, tau_fit,
    \* the reported results: M_fit, D_fit, spec (A_fit) and residuals
    M_fit, D_fit, A_fit, residuals,
    \* the residual getDifference returned last to the minimizer
    difference,
    \* the fit: position of the caller, the lmfit parameters, the values of
    \* the evaluation in progress, the best values found, evaluations done,
    \* minimizer runs, the success flag of the result, the value returned by
    \* findTau_fit, the lines printed
    pc, params, cur, best, nfev, runs, success, ret, out,
    \* the list of pairs that getTauBounds returned last
    bounds,
    \* the last call that was recorded: operation, argument, exception raised
    \* ("" when it returned), value returned
    last

controller == <<listing, con>>
windowing == <<axis, limits, borders, window>>
numbers == <<spectra_v, M_v, D_out, A_out, ulps>>
inputs == <<controller, windowing, numbers, model, Kin, flatIn, preparam, in_low, in_high, C_0in,
            delays, spectra>>
attrs == <<M_ones, K, n, tau_low, tau_high, C_0, M, tau_fit>>
results == <<M_fit, D_fit, A_fit, residuals, difference>>
fit == <<params, cur, best, nfev, runs, success, ret, out, bounds>>
vars == <<inputs, M_lin, attrs, results, fit, pc, last>>

Custom == {"custom model", "custom matrix"}
Kinetic == {"1"} \cup Custom
ModelSet == {"0"} \cup Kinetic

TauVals == {FromInt(v) : v \in 1..MaxTau}
\* a populated cell of the user's custom matrix: a lifetime, or a negative
\* entry
CellVals == {FromInt(MaxTau), FromInt(-1)}

\* the custom matrices of d species with the cells S populated by f
MatOf(d, S, f) ==
    [i \in 1..d |-> [j \in 1..d |-> IF <<i, j>> \in S THEN f[<<i, j>>] ELSE Zero]]

CellChoices(d) == {S \in SUBSET CellSet(d) : Cardinality(S) <= MaxCells}

\* the flat vectors of positive lifetimes handed to regenM and getK: of
\* every length, with rising, falling and equal values
FlatIns ==
    UNION {{[a \in 1..l |-> FromInt(a)],
            [a \in 1..l |-> FromInt(l + 1 - a)],
            [a \in 1..l |-> FromInt(MaxTau)]} : l \in 0..MaxFlat}

\* preparam: pairs (start lifetime, varied), the start lifetimes rising with
\* the index so that no two entries are alike, the flags free
PreParams ==
    UNION {{[i \in 1..l |-> <<FromInt(i), v[i]>>] : v \in [1..l -> BOOLEAN]}
           : l \in 1..MaxParams}

\* tau = [tau[0] for tau in preparam]
TauOf(pp) == [i \in 1..Len(pp) |-> pp[i][1]]

\* the lower and upper bound lists a caller passes for l parameters
LowIn(l) == {<<>>, [i \in 1..l |-> NoneVal], [i \in 1..l |-> FromInt(i - 1)]}
HighIn(l) == {<<>>, [i \in 1..l |-> NoneVal], [i \in 1..l |-> FromInt(MaxTau + i)]}

\* the delay axis of the data: delays before, at and after time zero
DelayAxis == [j \in 1..MaxDelays |-> FromInt(j - 2)]

\* the data a Model object reads at construction
InitData ==
    /\ delays = DelayAxis
    /\ spectra = [rows |-> MaxLambdas, cols |-> Len(DelayAxis)]

NoCall == [op |-> "", arg |-> <<>>, err |-> "", ret |-> <<>>]

\* the matrices are followed by their shapes only, no numbers are kept
Plain ==
    /\ spectra_v = <<>> /\ M_v = <<>>
    /\ D_out = Unset /\ A_out = Unset
    /\ ulps = Unset

\* the Model object was handed over already built: no folder was listed and
\* no Controller attribute is read
Direct == listing = {} /\ con = Unset

\* the call op raises the exception e
Raise(op, e) ==
    /\ pc' = "raised"
    /\ last' = [op |-> op, arg |-> <<>>, err |-> e, ret |-> <<>>]

\* the object is followed from the end of its construction: the window of
\* the data was selected before
Loaded == axis = <<>> /\ limits = NoneVal /\ borders = Unset /\ window = Unset

InitObject ==
    /\ M_lin = Unset
    /\ M_ones = Unset /\ K = Unset /\ n = Unset
    /\ tau_low = Unset /\ tau_high = Unset /\ C_0 = Unset
    /\ M = Unset /\ tau_fit = Unset
    /\ M_fit = Unset /\ D_fit = Unset /\ A_fit = Unset /\ residuals = Unset
    /\ difference = Unset
    /\ params = <<>> /\ cur = <<>> /\ best = <<>>
    /\ nfev = 0 /\ runs = 0 /\ success = FALSE
    /\ ret = Unset /\ out = <<>>
    /\ bounds = Unset
    /\ last = NoCall

\* the first call on the Model object: calcDAS starts with getM, calcSAS
\* with getM_lin for a custom topology and with setTauBounds otherwise
\* FirstStep with the custom branch of calcSAS calling getK first
FirstStep_getKFirst(mdl) ==
    IF mdl = "0" THEN "getM"
    ELSE IF mdl \in Custom THEN "getK" ELSE "setTauBounds"

\* the first call calcDAS or calcSAS makes on the Model it has built
FirstStep(mdl) ==
    IF mdl = "0" THEN "getM"
    ELSE IF mdl \in Custom THEN "getM_lin" ELSE "setTauBounds"

\* a Model object right after construction, handed a fit request
Init ==
    /\ model \in ModelSet
    /\ flatIn = <<>>
    /\ C_0in = <<>>
    /\ IF model \in Custom
       THEN /\ \E d \in 2..MaxN : \E S \in CellChoices(d) :
                Kin = MatOf(d, S, [c \in S |-> FromInt(MaxTau)])
            /\ in_low = <<>> /\ in_high = <<>>
            /\ IF model = "custom matrix"
               THEN preparam = <<>>
               ELSE preparam \in PreParams
       ELSE /\ Kin = <<>>
            /\ preparam \in PreParams
            /\ IF model = "0"
               THEN in_low = <<>> /\ in_high = <<>>
               ELSE /\ in_low \in LowIn(Len(preparam))
                    /\ in_high \in HighIn(Len(preparam))
    /\ pc = FirstStep(model)
    /\ Direct
    /\ InitData
    /\ InitObject
    /\ Loaded
    /\ Plain

\* a Model object of a custom topology and the user's custom matrix
InitCodec ==
    /\ model \in Custom
    /\ \E d \in 2..MaxN : \E S \in CellChoices(d) : \E f \in [S -> CellVals] :
            Kin = MatOf(d, S, f)
    /\ flatIn = <<>>
    /\ preparam = <<>> /\ in_low = <<>> /\ in_high = <<>> /\ C_0in = <<>>
    /\ pc = "codec"
    /\ Direct
    /\ InitData
    /\ InitObject
    /\ Loaded
    /\ Plain

----------------------------------------------------------------------------
(* The codec and the matrix builder called on their own *)

Call_getM_lin ==
    /\ pc = "codec"
    /\ M_ones' = <<getM_lin_ones(Kin)>>
    /\ M_lin' = <<getM_lin(Kin)>>
    /\ last' = [op |-> "getM_lin", arg |-> Kin, err |-> "", ret |-> getM_lin(Kin)]
    /\ pc' = "flattened"
    /\ UNCHANGED <<results, inputs, K, n, tau_low, tau_high, C_0, M, tau_fit,
                   fit>>

\* the vectors a caller passes after getM_lin: the one getM_lin returned, or
\* new lifetimes
FlatArgs == FlatIns \cup {M_lin[1]}

Call_regenM ==
    /\ pc = "flattened"
    /\ \E tau_guess \in FlatArgs :
        LET r == regenM(M_ones, tau_guess)
        IN  /\ flatIn' = tau_guess
            /\ last' = [op |-> "regenM", arg |-> tau_guess, err |-> r.err,
                        ret |-> r.ret]
    /\ pc' = "called"
    /\ UNCHANGED <<results, controller, windowing, numbers, delays, spectra, model, Kin, preparam, in_low,
                   in_high, C_0in, M_lin, attrs, fit>>

Call_getK ==
    /\ pc = "flattened"
    /\ \E tau \in FlatArgs :
        LET r == getK(model, M_ones, tau)
        IN  /\ flatIn' = tau
            /\ last' = [op |-> "getK", arg |-> tau, err |-> r.err, ret |-> r.K]
            /\ IF r.err = ""
               THEN K' = <<r.K>> /\ n' = <<r.n>>
               ELSE UNCHANGED <<K, n>>
    /\ pc' = "called"
    /\ UNCHANGED <<results, controller, windowing, numbers, delays, spectra, model, Kin, preparam, in_low,
                   in_high, C_0in, M_lin, M_ones,
                   tau_low, tau_high, C_0, M, tau_fit, fit>>

NextCodec == Call_getM_lin \/ Call_regenM \/ Call_getK

CodecSpec == InitCodec /\ [][NextCodec]_vars

----------------------------------------------------------------------------
(* The bounds policy called on its own *)

\* the lifetime lists handed to setTauBounds and getTauBounds
BoundTaus == {[i \in 1..l |-> FromInt(i)] : l \in 0..MaxParams}

\* the bound lists of a caller: empty, or of any length, whatever the number
\* of lifetimes
AnyLow == UNION {LowIn(l) : l \in 1..MaxParams}
AnyHigh == UNION {HighIn(l) : l \in 1..MaxParams}

\* a Model object and the lists its caller holds
InitBounds ==
    /\ model \in ModelSet
    /\ Kin = <<>> /\ preparam = <<>> /\ C_0in = <<>>
    /\ flatIn \in BoundTaus
    /\ in_low \in AnyLow
    /\ in_high \in AnyHigh
    /\ pc = "bounds"
    /\ Direct
    /\ InitData
    /\ InitObject
    /\ Loaded
    /\ Plain

\* setTauBounds(tau_low, tau_high, tau); the call is recorded with the
\* lists as they were passed, the defaults are then written into the
\* caller's tau_low
Call_setTauBounds ==
    /\ pc = "bounds"
    /\ tau_low' = <<setTauBounds_low(in_low, flatIn)>>
    /\ tau_high' = <<setTauBounds_high(in_high, flatIn)>>
    /\ in_low' = IF in_low = <<>> THEN in_low
                 ELSE setTauBounds_low(in_low, flatIn)
    /\ last' = [op |-> "setTauBounds", arg |-> <<in_low, in_high, flatIn>>,
                err |-> "", ret |-> <<>>]
    /\ pc' = "boundsSet"
    /\ UNCHANGED <<results, controller, windowing, numbers, delays, spectra, model, Kin, flatIn, preparam,
                   in_high, C_0in, M_lin, M_ones,
                   K, n, C_0, M, tau_fit, fit>>

\* getTauBounds(tau), before or after setTauBounds
Call_getTauBounds ==
    /\ pc \in {"bounds", "boundsSet"}
    /\ LET r == getTauBounds(model, tau_low, tau_high, flatIn)
       IN  IF r.err # ""
           THEN Raise("getTauBounds", r.err) /\ UNCHANGED bounds
           ELSE /\ bounds' = <<r.bounds>>
                /\ pc' = "bounded"
                /\ UNCHANGED last
    /\ UNCHANGED <<results, inputs, M_lin, attrs, params, cur, best, nfev, runs,
                   success, ret, out>>

NextBounds == Call_setTauBounds \/ Call_getTauBounds

BoundsSpec == InitBounds /\ [][NextBounds]_vars

----------------------------------------------------------------------------
(* BasisGenerator: genE_tau, setInitialConcentrations, solveDiff, getM *)

\* A basis matrix is kept as the inputs it was computed from: its kind
\* (E_tau of the exponential basis, C_t of the integrated one), the lifetime
\* vector handed to getM, the K and C_0 that were integrated, the number of
\* its columns, and for E_tau its entries.

\* genE_tau(tau): E_tau[i][j] = exp(-delays[j] / tau[i])
genE_tau(tau, dl) ==
    [kind |-> "E_tau", tau |-> tau, K |-> <<>>, C_0 |-> <<>>,
     cols |-> Len(dl),
     E |-> [i \in 1..Len(tau) |-> [j \in 1..Len(dl) |->
                Exp(FloatDiv(RatNeg(dl[j]), tau[i]))]]]

\* the vector setInitialConcentrations stores: the user's, or 1, 0, 0, ...
setInitialConcentrations(c0, nn) ==
    IF c0 = <<>>
    THEN [i \in 1..nn |-> IF i = 1 THEN FromInt(1) ELSE Zero]
    ELSE c0

\* the numbers of delays solve_ivp may have reached when it returns: all of
\* them when it succeeded, fewer when it reports a failure
Reached(dl) == 0..Len(dl)

\* solveDiff(K, ivp_method): Z.get("y"), the concentrations integrated from
\* C_0 at the delays the solver reached
solveDiff(Km, c0, tau, dl, reached) ==
    IF c0 = Unset
    THEN [err |-> "AttributeError", ret |-> <<>>]
    ELSE IF Len(c0[1]) # Dim(Km)
         THEN [err |-> "ValueError", ret |-> <<>>]
         ELSE [err |-> "",
               ret |-> [kind |-> "C_t", tau |-> tau, K |-> Km, C_0 |-> c0[1],
                        cols |-> reached, E |-> <<>>]]

\* getM(tau): the basis, and the K and n stored on the way (stored is FALSE
\* when neither was assigned)
getM(mdl, ones, c0, tau, dl, reached) ==
    IF mdl = "0"
    THEN [err |-> "", ret |-> genE_tau(tau, dl), stored |-> TRUE,
          K |-> <<>>, n |-> Len(tau)]
    ELSE LET k == getK(mdl, ones, tau)
         IN  IF k.err # ""
             THEN [err |-> k.err, ret |-> <<>>, stored |-> FALSE,
                   K |-> <<>>, n |-> 0]
             ELSE LET sd == solveDiff(k.K, c0, tau, dl, reached)
                  IN  [err |-> sd.err, ret |-> sd.ret, stored |-> TRUE,
                       K |-> k.K, n |-> k.n]

\* the outcomes of the solver that getM can meet for a model
ReachedBy(mdl, dl) == IF mdl = "0" THEN {Len(dl)} ELSE Reached(dl)

----------------------------------------------------------------------------
(* LinearReconstructor: calcD_tau / calcD_fit *)

Rows(Mb) == IF Mb.kind = "E_tau" THEN Len(Mb.tau) ELSE Dim(Mb.K)

\* an entry of the basis is inf or nan
NonFinite(Mb) ==
    /\ Mb.kind = "E_tau"
    /\ \E i \in 1..Len(Mb.E) : \E j \in 1..Mb.cols : Mb.E[i][j][3] = 0

\* two rows of the basis are alike, or a row is 0 throughout
DegenerateRows(Mb) ==
    /\ Mb.kind = "E_tau"
    /\ \/ \E i, k \in 1..Len(Mb.E) : i # k /\ Mb.E[i] = Mb.E[k]
       \/ \E i \in 1..Len(Mb.E) : \A j \in 1..Mb.cols : Mb.E[i][j] = <<0, 0, 1>>

\* whether M @ M.T of a basis can be singular: computed from the rows of an
\* exponential basis, decided by the trajectories of an integrated one
Singular(Mb) == IF Mb.kind = "E_tau" THEN {DegenerateRows(Mb)} ELSE BOOLEAN

\* spectra @ M.T @ inv(M @ M.T): the matrix product raises on a basis with
\* another number of columns than the spectra; inv raises LinAlgError on a
\* singular matrix and returns nan for a matrix that holds inf or nan.  The
\* amplitude matrix is kept as the basis it was computed from and its shape.
calcD(Mb, sp, sing) ==
    IF Mb.cols # sp.cols
    THEN [err |-> "ValueError", ret |-> <<>>]
    ELSE IF NonFinite(Mb)
         THEN [err |-> "",
               ret |-> [kind |-> "D", M |-> Mb, rows |-> sp.rows,
                        cols |-> Rows(Mb), nan |-> TRUE]]
         ELSE IF sing
              THEN [err |-> "LinAlgError", ret |-> <<>>]
              ELSE [err |-> "",
                    ret |-> [kind |-> "D", M |-> Mb, rows |-> sp.rows,
                             cols |-> Rows(Mb), nan |-> FALSE]]

\* D @ M: the product kept as its factors and its shape
MatMul(D, Mb) ==
    IF D.cols # Rows(Mb)
    THEN [err |-> "ValueError", ret |-> <<>>]
    ELSE [err |-> "",
          ret |-> [kind |-> "A", D |-> D, M |-> Mb, rows |-> D.rows,
                   cols |-> Mb.cols]]

\* A - spectra: the difference kept as its operands, in their order
Minus(A, sp) ==
    IF A.rows # sp.rows \/ A.cols # sp.cols
    THEN [err |-> "ValueError", ret |-> <<>>]
    ELSE [err |-> "",
          ret |-> [kind |-> "minus", left |-> A, right |-> "spectra",
                   rows |-> A.rows, cols |-> A.cols]]

----------------------------------------------------------------------------
(* The basis generator and the reconstructor called on their own *)

\* the lifetimes of a component: positive, 0, or infinite
BasisVals == TauVals \cup {Zero, Inf}

\* the lifetime lists handed to getK and getM
BasisTaus == UNION {[1..l -> BasisVals] : l \in 1..MaxRows}

\* the delay axes of a window of the data: ascending, before, at and after
\* time zero
DelayAxes ==
    {SubSeq(DelayAxis, a, b) : a \in 1..MaxDelays, b \in 1..MaxDelays} \ {<<>>}

\* a Model object of the DAS or of a fixed topology with its window of data,
\* and the lifetimes of its caller
InitBasis ==
    /\ model \in {"0", "1"}
    /\ Kin = <<>> /\ preparam = <<>> /\ C_0in = <<>>
    /\ in_low = <<>> /\ in_high = <<>>
    /\ flatIn \in BasisTaus
    /\ delays \in DelayAxes
    /\ spectra = [rows |-> MaxLambdas, cols |-> Len(delays)]
    /\ pc = "basis"
    /\ Direct
    /\ InitObject
    /\ Loaded
    /\ Plain

\* K, n = getK(tau) for a fixed topology, tau a Python list
Call_getK_list ==
    /\ pc = "basis"
    /\ model = "1"
    /\ LET r == getK(model, M_ones, flatIn)
       IN  /\ K' = <<r.K>> /\ n' = <<r.n>>
           /\ last' = [op |-> "getK", arg |-> flatIn, err |-> r.err, ret |-> r.K]
    /\ pc' = "built"
    /\ UNCHANGED <<results, inputs, M_lin, M_ones, tau_low, tau_high, C_0, M,
                   tau_fit, fit>>

\* setInitialConcentrations(C_0) after getK
Call_setInitialConcentrations ==
    /\ pc = "built"
    /\ C_0' = <<setInitialConcentrations(C_0in, n[1])>>
    /\ pc' = "ready"
    /\ UNCHANGED <<results, inputs, M_lin, M_ones, K, n, tau_low, tau_high, M,
                   tau_fit, fit, last>>

\* self.M = getM(tau)
Call_getM ==
    /\ pc \in {"basis", "ready"}
    /\ \E reached \in ReachedBy(model, delays) :
        LET r == getM(model, M_ones, C_0, flatIn, delays, reached)
        IN  /\ IF r.stored /\ model # "0" THEN K' = <<r.K>> ELSE UNCHANGED K
            /\ IF r.stored THEN n' = <<r.n>> ELSE UNCHANGED n
            /\ last' = [op |-> "getM", arg |-> flatIn, err |-> r.err,
                        ret |-> r.ret]
            /\ IF r.err # ""
               THEN pc' = "raised" /\ UNCHANGED M
               ELSE pc' = "basisMade" /\ M' = <<r.ret>>
    /\ UNCHANGED <<results, inputs, M_lin, M_ones, tau_low, tau_high, C_0,
                   tau_fit, fit>>

\* calcD_tau(tau) on the basis stored in M
Call_calcD_tau ==
    /\ pc = "basisMade"
    /\ \E sing \in Singular(M[1]) :
        LET d == calcD(M[1], spectra, sing)
        IN  last' = [op |-> "calcD_tau", arg |-> flatIn, err |-> d.err,
                     ret |-> d.ret]
    /\ pc' = "reconstructed"
    /\ UNCHANGED <<results, inputs, M_lin, attrs, fit>>

NextBasis ==
    \/ Call_getK_list
    \/ Call_setInitialConcentrations
    \/ Call_getM
    \/ Call_calcD_tau

BasisSpec == InitBasis /\ [][NextBasis]_vars

----------------------------------------------------------------------------
(* The codec in float64: the rounding of 1/(1/x) *)

\* bits of the significand of a numpy float64
Significand == 53

RECURSIVE Log2Floor(_)
Log2Floor(x) == IF x < 2 THEN 0 ELSE 1 + Log2Floor(x \div 2)

RECURSIVE IntPow(_, _)
IntPow(b, e) == IF e = 0 THEN 1 ELSE b * IntPow(b, e - 1)

\* 2^e modulo x
RECURSIVE PowMod2(_, _)
PowMod2(e, x) == IF e = 0 THEN 1 % x ELSE (2 * PowMod2(e - 1, x)) % x

\* np.divide(1, x) for an integer x >= 1: the quotient 2^e / x rounded to
\* the nearest significand m of 53 bits, e = 53 + floor(log2 x); the value
\* is 2^e - x * m, the part of 1 that the rounded reciprocal misses
RecipRemainder(x) ==
    LET r == PowMod2(Significand + Log2Floor(x), x)
    IN  IF 2 * r < x THEN r ELSE r - x

\* 1 / np.divide(1, x) rounded to the nearest float64, as its distance from
\* x in units in the last place of x: the quotient x / (1 - dlt / 2^e) lies
\* within half a unit of x exactly when x * |dlt| stays below 4^floor(log2 x)
RoundTripUlps(x) ==
    LET dlt == RecipRemainder(x)
        q == IntPow(4, Log2Floor(x))
    IN  IF dlt > 0
        THEN IF x * dlt < q THEN 0 ELSE 1
        ELSE IF x * (-dlt) <= q THEN 0 ELSE -1

\* tau = 1/np.array(M_lin) of getM_lin for a custom matrix of integer
\* lifetimes: for every entry of the flat vector its distance from the
\* cell it was taken from
getM_lin_ulps(tau_guess) ==
    LET k == getM_lin_k(tau_guess)
        kept == SelectSeq(CellSeq(Dim(tau_guess)),
                          LAMBDA p : k[p[1]][p[2]] # Zero)
    IN  [a \in 1..Len(kept) |->
            RoundTripUlps(Abs(tau_guess[kept[a][1]][kept[a][2]][1]))]

\* the lifetimes of the cells of a custom matrix
RoundLifetimes == {FromInt(1), FromInt(3), FromInt(49)}

\* a Model object of a custom topology and the user's custom matrix of
\* positive lifetimes
InitRound ==
    /\ model \in Custom
    /\ \E d \in 2..MaxN : \E S \in CellChoices(d) :
        \E f \in [S -> RoundLifetimes] : Kin = MatOf(d, S, f)
    /\ flatIn = <<>>
    /\ preparam = <<>> /\ in_low = <<>> /\ in_high = <<>> /\ C_0in = <<>>
    /\ pc = "round"
    /\ Direct
    /\ InitData
    /\ InitObject
    /\ Loaded
    /\ Plain

\* M_lin = getM_lin(K), the entries of the vector followed as floats
Round_getM_lin ==
    /\ pc = "round"
    /\ M_ones' = <<getM_lin_ones(Kin)>>
    /\ M_lin' = <<getM_lin(Kin)>>
    /\ ulps' = <<getM_lin_ulps(Kin)>>
    /\ last' = [op |-> "getM_lin", arg |-> Kin, err |-> "", ret |-> getM_lin(Kin)]
    /\ pc' = "rounded"
    /\ UNCHANGED <<results, controller, windowing, spectra_v, M_v, D_out, A_out, model,
                   Kin, flatIn, preparam, in_low, in_high, C_0in, delays,
                   spectra, K, n, tau_low, tau_high, C_0, M, tau_fit, fit>>

\* regenM(M_lin) on the vector getM_lin returned
Round_regenM ==
    /\ pc = "rounded"
    /\ LET r == regenM(M_ones, M_lin[1])
       IN  /\ flatIn' = M_lin[1]
           /\ last' = [op |-> "regenM", arg |-> M_lin[1], err |-> r.err,
                       ret |-> r.ret]
    /\ pc' = "regenerated"
    /\ UNCHANGED <<results, controller, windowing, numbers, delays, spectra, model, Kin,
                   preparam, in_low, in_high, C_0in, M_lin, attrs, fit>>

NextRound == Round_getM_lin \/ Round_regenM

RoundSpec == InitRound /\ [][NextRound]_vars

----------------------------------------------------------------------------
(* DataLoader: findBordersbyCSV and initDatabyCSV on one axis *)

\* min(values) and max(values)
MinOf(values) ==
    CHOOSE v \in {values[i] : i \in 1..Len(values)} :
        \A i \in 1..Len(values) : RatLeq(v, values[i])
MaxOf(values) ==
    CHOOSE v \in {values[i] : i \in 1..Len(values)} :
        \A i \in 1..Len(values) : RatLeq(values[i], v)

\* np.absolute(values - limit).argmin(): the index, counted from 0, of the
\* first value nearest to the limit
ArgMinAbs(values, limit) ==
    LET dist(i) == RatAbs(RatSub(values[i], limit))
    IN  (CHOOSE i \in 1..Len(values) :
            /\ \A j \in 1..Len(values) : RatLeq(dist(i), dist(j))
            /\ \A j \in 1..(i - 1) : RatLess(dist(i), dist(j))) - 1

\* the list of limits after findBordersbyCSV replaced each None in it
findBorders_limits(lim, values) ==
    LET l == IF lim = NoneVal THEN <<NoneVal, NoneVal>> ELSE lim
    IN  <<IF l[1] = NoneVal THEN MinOf(values) ELSE l[1],
          IF l[2] = NoneVal THEN MaxOf(values) ELSE l[2]>>

\* findBordersbyCSV(limits, csv_filename, type): the two indices
findBordersbyCSV(lim, values) ==
    LET l == findBorders_limits(lim, values)
    IN  <<ArgMinAbs(values, l[1]), ArgMinAbs(values, l[2])>>

\* the slice values[b[0]:b[1]] of iloc, the upper index left out
Slice(values, b) == SubSeq(values, b[1] + 1, b[2])

\* initDatabyCSV: df.iloc[...] with the borders, then the values of the axis
initDatabyCSV(values, b) == Slice(values, b)

\* the axes of a file: rising or falling, of every length
Axes ==
    UNION {{[i \in 1..l |-> FromInt(i)], [i \in 1..l |-> FromInt(l + 1 - i)]}
           : l \in 1..MaxDelays}

\* the limits a caller passes: None, or a list of two entries, each None or
\* a number inside or outside the axis
LimitVals == {NoneVal} \cup {FromInt(v) : v \in 0..(MaxDelays + 1)}
LimitsIn == {NoneVal} \cup (LimitVals \X LimitVals)

\* a Model under construction: the file was read, no border was found yet
InitWindow ==
    /\ axis \in Axes
    /\ limits \in LimitsIn
    /\ borders = Unset /\ window = Unset
    /\ model \in ModelSet
    /\ Kin = <<>> /\ flatIn = <<>> /\ preparam = <<>> /\ C_0in = <<>>
    /\ in_low = <<>> /\ in_high = <<>>
    /\ pc = "findBorders"
    /\ Direct
    /\ delays = <<>> /\ spectra = [rows |-> 0, cols |-> 0]
    /\ InitObject
    /\ Plain

\* self.d_borders = findBordersbyCSV(d_limits, ...), which writes the
\* defaults into the caller's list
Win_findBordersbyCSV ==
    /\ pc = "findBorders"
    /\ borders' = <<findBordersbyCSV(limits, axis)>>
    /\ limits' = IF limits = NoneVal THEN limits
                 ELSE findBorders_limits(limits, axis)
    /\ pc' = "initData"
    /\ UNCHANGED <<results, controller, axis, window, numbers, model, Kin,
                   flatIn, preparam, in_low, in_high, C_0in, delays, spectra,
                   M_lin, attrs, fit, last>>

\* self.delays, ... = initDatabyCSV(csv_filename, d_borders, l_borders)
Win_initDatabyCSV ==
    /\ pc = "initData"
    /\ window' = <<initDatabyCSV(axis, borders[1])>>
    /\ delays' = initDatabyCSV(axis, borders[1])
    /\ pc' = "loaded"
    /\ UNCHANGED <<results, controller, axis, limits, borders, numbers, model,
                   Kin, flatIn, preparam, in_low, in_high, C_0in, spectra,
                   M_lin, attrs, fit, last>>

NextWindow == Win_findBordersbyCSV \/ Win_initDatabyCSV

WindowSpec == InitWindow /\ [][NextWindow]_vars

----------------------------------------------------------------------------
(* Fitter: findTau_fit *)

\* lmfit keeps the value of a parameter inside its bounds; None is unbounded
Clip(v, lo, hi) ==
    IF lo # NoneVal /\ RatLess(v, lo) THEN lo
    ELSE IF hi # NoneVal /\ RatLess(hi, v) THEN hi
    ELSE v

InBounds(v, lo, hi) ==
    /\ lo = NoneVal \/ RatLeq(lo, v)
    /\ hi = NoneVal \/ RatLeq(v, hi)

\* the Parameters that findTau_fit builds: the single parameter tau0, made of
\* the second entry of preparam and of the first pair of bounds.  src and
\* bsrc are the positions of the entry and of the pair that were read.
findTau_fit_params(pp, bs) ==
    IF Len(pp) < 2 \/ Len(bs) < 1
    THEN [err |-> "IndexError", params |-> <<>>]
    ELSE [err |-> "",
          params |-> << [name |-> "tau0",
                         value |-> Clip(pp[2][1], bs[1][1], bs[1][2]),
                         min |-> bs[1][1], max |-> bs[1][2],
                         vary |-> pp[2][2], src |-> 2, bsrc |-> 1] >>]

\* the values the minimizer may try: a varied parameter takes any value
\* inside its bounds, a fixed one keeps its value
Trials(ps) ==
    {c \in [1..Len(ps) -> TauVals \cup {ps[i].value : i \in 1..Len(ps)}] :
        \A i \in 1..Len(ps) :
            IF ps[i].vary THEN InBounds(c[i], ps[i].min, ps[i].max)
            ELSE c[i] = ps[i].value}

\* fit_report(res_fit): the statistics and the values of the result
fit_report(res) == [nfev |-> res.nfev, values |-> res.values]

\* findTau_fit_result handing back the flat list for every model
findTau_fit_result_flat(mdl, ones, res) ==
    LET printed == IF res.success = FALSE THEN <<"Fitting unsuccesful!">> ELSE <<>>
    IN  [err |-> "", printed |-> printed, tau_fit |-> res.values,
         ret |-> <<res.values, fit_report(res)>>]

\* what findTau_fit does with the result res_fit of the minimizer: the line
\* printed, the tau_fit stored and the value returned
findTau_fit_result(mdl, ones, res) ==
    LET printed == IF res.success = FALSE THEN <<"Fitting unsuccesful!">> ELSE <<>>
        r == IF mdl \in Custom THEN regenM(ones, res.values)
             ELSE [err |-> "", ret |-> res.values]
    IN  [err |-> r.err, printed |-> printed, tau_fit |-> res.values,
         ret |-> <<r.ret, fit_report(res)>>]

----------------------------------------------------------------------------
(* The calls calcDAS and calcSAS make on the Model object, in their order *)

\* calcSAS, custom topology: M_lin = getM_lin(K)
Ctl_getM_lin ==
    /\ pc = "getM_lin"
    /\ M_ones' = <<getM_lin_ones(Kin)>>
    /\ M_lin' = <<getM_lin(Kin)>>
    /\ pc' = "getK"
    /\ UNCHANGED <<results, inputs, K, n, tau_low, tau_high, C_0, M, tau_fit,
                   fit, last>>

\* Ctl_getK with getK deriving the mask anew from the matrix it built
Ctl_getK_remask ==
    /\ pc = "getK"
    /\ LET tau == IF model \in Custom THEN M_lin[1] ELSE TauOf(preparam)
           r == getK(model, M_ones, tau)
       IN  IF r.err # ""
           THEN Raise("getK", r.err) /\ UNCHANGED <<K, n>>
           ELSE /\ K' = <<r.K>> /\ n' = <<r.n>>
                /\ pc' = IF model \in Custom THEN "setTauBounds"
                         ELSE "setInitialConcentrations"
                /\ UNCHANGED last
    /\ M_ones' = IF model \in Custom /\ M_ones # Unset
                 THEN <<[i \in 1..Dim(Kin) |-> [j \in 1..Dim(Kin) |->
                            IF Kin[i][j] # Zero THEN 1 ELSE 0]]>>
                 ELSE M_ones
    /\ UNCHANGED <<results, inputs, M_lin, tau_low, tau_high, C_0, M,
                   tau_fit, fit>>

\* calcSAS: K, n = getK(M_lin) for a custom topology, getK(tau) otherwise
Ctl_getK ==
    /\ pc = "getK"
    /\ LET tau == IF model \in Custom THEN M_lin[1] ELSE TauOf(preparam)
           r == getK(model, M_ones, tau)
       IN  IF r.err # ""
           THEN Raise("getK", r.err) /\ UNCHANGED <<K, n>>
           ELSE /\ K' = <<r.K>> /\ n' = <<r.n>>
                /\ pc' = IF model \in Custom THEN "setTauBounds"
                         ELSE "setInitialConcentrations"
                /\ UNCHANGED last
    /\ UNCHANGED <<results, inputs, M_lin, M_ones, tau_low, tau_high, C_0, M,
                   tau_fit, fit>>

\* calcSAS: setTauBounds(tau_low, tau_high, ...), which writes the defaults
\* into the caller's tau_low; for "custom matrix" preparam is then rebuilt
\* from M_lin, every entry varied
Ctl_setTauBounds ==
    /\ pc = "setTauBounds"
    /\ LET tau == IF model \in Custom THEN M_lin[1] ELSE TauOf(preparam)
       IN  /\ tau_low' = <<setTauBounds_low(in_low, tau)>>
           /\ tau_high' = <<setTauBounds_high(in_high, tau)>>
           /\ in_low' = IF in_low = <<>> THEN in_low
                        ELSE setTauBounds_low(in_low, tau)
    /\ preparam' = IF model = "custom matrix"
                   THEN [i \in 1..Len(M_lin[1]) |-> <<M_lin[1][i], TRUE>>]
                   ELSE preparam
    /\ pc' = IF model \in Custom THEN "setInitialConcentrations" ELSE "getK"
    /\ UNCHANGED <<results, controller, windowing, numbers, delays, spectra, model, Kin, flatIn, in_high,
                   C_0in, M_lin, M_ones, K, n,
                   C_0, M, tau_fit, fit, last>>

\* calcSAS: setInitialConcentrations(C_0)
Ctl_setInitialConcentrations ==
    /\ pc = "setInitialConcentrations"
    /\ C_0' = <<setInitialConcentrations(C_0in, n[1])>>
    /\ pc' = "solveDiff"
    /\ UNCHANGED <<results, inputs, M_lin, M_ones, K, n, tau_low, tau_high,
                   M, tau_fit,
                   fit, last>>

\* calcSAS: solveDiff(self.SAS.K, ivp_method), the result dropped
Ctl_solveDiff ==
    /\ pc = "solveDiff"
    /\ \E reached \in Reached(delays) :
        LET r == solveDiff(K[1], C_0, <<>>, delays, reached)
        IN  IF r.err # ""
            THEN Raise("solveDiff", r.err)
            ELSE pc' = "findTau_fit" /\ UNCHANGED last
    /\ UNCHANGED <<results, inputs, M_lin, attrs, fit>>

\* calcDAS: self.DAS.M = getM(tau)
Ctl_getM ==
    /\ pc = "getM"
    /\ LET r == getM(model, M_ones, C_0, TauOf(preparam), delays, Len(delays))
       IN  /\ M' = <<r.ret>>
           /\ n' = <<r.n>>
    /\ pc' = "findTau_fit"
    /\ UNCHANGED <<results, inputs, M_lin, M_ones, K, tau_low, tau_high, C_0,
                   tau_fit,
                   fit, last>>

\* findTau_fit up to the call of minimize: tau_fit emptied, the bounds read,
\* the Parameters built
FindTauFit_begin ==
    /\ pc = "findTau_fit"
    /\ tau_fit' = <<<<>>>>
    /\ LET b == getTauBounds(model, tau_low, tau_high, preparam)
           p == findTau_fit_params(preparam, b.bounds)
       IN  IF b.err # ""
           THEN Raise("findTau_fit", b.err) /\ UNCHANGED <<params, runs, bounds>>
           ELSE /\ bounds' = <<b.bounds>>
                /\ IF p.err # ""
                   THEN Raise("findTau_fit", p.err) /\ UNCHANGED <<params, runs>>
                   ELSE
                     /\ params' = p.params
                     /\ runs' = runs + 1
                     /\ pc' = "minimize"
                     /\ UNCHANGED last
    /\ UNCHANGED <<results, inputs, M_lin, M_ones, K, n, tau_low, tau_high,
                   C_0, M,
                   cur, best, nfev, success, ret, out>>

\* calcA_tau(tau) - spectra on the basis Mb: D_tau from calcD_tau, then
\* D_tau @ M, then the difference
calcA_tau_minus(Mb, sp, sing) ==
    LET d == calcD(Mb, sp, sing)
    IN  IF d.err # "" THEN [err |-> d.err, ret |-> <<>>]
        ELSE LET a == MatMul(d.ret, Mb)
             IN  IF a.err # "" THEN [err |-> a.err, ret |-> <<>>]
                 ELSE Minus(a.ret, sp)

\* one evaluation of getDifference by the minimizer: the basis rebuilt from
\* the values of all the parameters and stored in M, the residual computed
\* from it
GetDifference ==
    /\ pc = "minimize"
    /\ nfev < MaxEvals
    /\ \E tau_sum \in Trials(params) : \E reached \in ReachedBy(model, delays) :
        LET r == getM(model, M_ones, C_0, tau_sum, delays, reached)
        IN  /\ cur' = tau_sum
            /\ IF r.stored /\ model # "0" THEN K' = <<r.K>> ELSE UNCHANGED K
            /\ IF r.stored THEN n' = <<r.n>> ELSE UNCHANGED n
            /\ IF r.err # ""
               THEN /\ Raise("findTau_fit", r.err)
                    /\ UNCHANGED <<M, nfev, best, difference>>
               ELSE /\ M' = <<r.ret>>
                    /\ \E sing \in Singular(r.ret) :
                        LET df == calcA_tau_minus(r.ret, spectra, sing)
                        IN  IF df.err # ""
                            THEN /\ Raise("findTau_fit", df.err)
                                 /\ UNCHANGED <<nfev, best, difference>>
                            ELSE /\ difference' = <<df.ret>>
                                 /\ nfev' = nfev + 1
                                 /\ best' \in (IF nfev = 0 THEN {tau_sum}
                                               ELSE {best, tau_sum})
                                 /\ UNCHANGED <<pc, last>>
    /\ UNCHANGED <<M_fit, D_fit, A_fit, residuals, inputs, M_lin, M_ones,
                   tau_low, tau_high, C_0, tau_fit, params, runs, success,
                   ret, out, bounds>>

\* minimize returns res_fit and findTau_fit finishes: the failure printed,
\* tau_fit filled from the result, the custom matrix re-inflated, the value
\* returned
MinimizeReturns ==
    /\ pc = "minimize"
    /\ nfev >= 1
    /\ \E s \in BOOLEAN :
        LET res == [success |-> s, values |-> best, nfev |-> nfev]
            f == findTau_fit_result(model, M_ones, res)
        IN  /\ success' = s
            /\ out' = out \o f.printed
            /\ tau_fit' = <<f.tau_fit>>
            /\ IF f.err # ""
               THEN Raise("findTau_fit", f.err) /\ UNCHANGED ret
               ELSE /\ ret' = <<f.ret>>
                    /\ pc' = "fitted"
                    /\ UNCHANGED last
    /\ UNCHANGED <<results, inputs, M_lin, M_ones, K, n, tau_low, tau_high,
                   C_0, M,
                   params, cur, best, nfev, runs, bounds>>

\* calcD_fit taking the basis self.M that the last evaluation of
\* getDifference left behind
calcD_fit_basis_reuse(mdl, ones, c0, tfit, Mattr, dl, reached) ==
    [err |-> "", ret |-> Mattr[1], stored |-> FALSE, K |-> <<>>, n |-> 0]

\* the basis of calcD_fit: self.M_fit = self.getM(self.tau_fit)
calcD_fit_basis(mdl, ones, c0, tfit, Mattr, dl, reached) ==
    getM(mdl, ones, c0, tfit[1], dl, reached)

\* D_fit = calcD_fit(): M_fit rebuilt from tau_fit and stored, then D_fit
\* computed from it and stored
Ctl_calcD_fit ==
    /\ pc = "fitted"
    /\ \E reached \in ReachedBy(model, delays) :
        LET r == calcD_fit_basis(model, M_ones, C_0, tau_fit, M, delays, reached)
        IN  /\ IF r.stored /\ model # "0" THEN K' = <<r.K>> ELSE UNCHANGED K
            /\ IF r.stored THEN n' = <<r.n>> ELSE UNCHANGED n
            /\ IF r.err # ""
               THEN Raise("calcD_fit", r.err) /\ UNCHANGED <<M_fit, D_fit>>
               ELSE /\ M_fit' = <<r.ret>>
                    /\ \E sing \in Singular(r.ret) :
                        LET d == calcD(r.ret, spectra, sing)
                        IN  IF d.err # ""
                            THEN Raise("calcD_fit", d.err) /\ UNCHANGED D_fit
                            ELSE /\ D_fit' = <<d.ret>>
                                 /\ pc' = "calcA_fit"
                                 /\ UNCHANGED last
    /\ UNCHANGED <<A_fit, residuals, difference, inputs, M_lin, M_ones, tau_low,
                   tau_high, C_0, M, tau_fit, fit>>

\* spec = calcA_fit(): D_fit @ M_fit, stored in self.spec
Ctl_calcA_fit ==
    /\ pc = "calcA_fit"
    /\ LET a == MatMul(D_fit[1], M_fit[1])
       IN  IF a.err # ""
           THEN Raise("calcA_fit", a.err) /\ UNCHANGED A_fit
           ELSE A_fit' = <<a.ret>> /\ pc' = "calcResiduals" /\ UNCHANGED last
    /\ UNCHANGED <<M_fit, D_fit, residuals, difference, inputs, M_lin, attrs, fit>>

\* res = calcResiduals(): D_fit @ M_fit - spectra
Ctl_calcResiduals ==
    /\ pc = "calcResiduals"
    /\ LET a == MatMul(D_fit[1], M_fit[1])
           r == IF a.err # "" THEN a ELSE Minus(a.ret, spectra)
       IN  IF r.err # ""
           THEN Raise("calcResiduals", r.err) /\ UNCHANGED residuals
           ELSE residuals' = <<r.ret>> /\ pc' = "saveResults" /\ UNCHANGED last
    /\ UNCHANGED <<M_fit, D_fit, A_fit, difference, inputs, M_lin, attrs, fit>>

Next ==
    \/ Ctl_getM_lin
    \/ Ctl_getK
    \/ Ctl_setTauBounds
    \/ Ctl_setInitialConcentrations
    \/ Ctl_solveDiff
    \/ Ctl_getM
    \/ FindTauFit_begin
    \/ GetDifference
    \/ MinimizeReturns
    \/ Ctl_calcD_fit
    \/ Ctl_calcA_fit
    \/ Ctl_calcResiduals

Spec == Init /\ [][Next]_vars

\* the number of populated cells of the custom matrix m
PopulatedCount(m) ==
    Cardinality({c \in CellSet(Len(m)) : m[c[1]][c[2]] # Zero})

\* a Model object handed a fit request that names one start lifetime per
\* populated cell of the custom matrix, each of them varied save possibly
\* preparam[1], the only entry findTau_fit reads the flag of; the other
\* models as in Init
InitReport ==
    /\ Init
    /\ model = "custom model" =>
            /\ Len(preparam) = PopulatedCount(Kin)
            /\ \A i \in 1..Len(preparam) : i # 2 => preparam[i][2]

\* the fit flow on the requests of InitReport
ReportSpec == InitReport /\ [][Next]_vars

----------------------------------------------------------------------------
(* The end of calcDAS: the results computed and saved *)

\* round(x, 2): the nearest multiple of 1/100, a half going to the even one
Round2(a) ==
    LET q == (a[1] * 100) \div a[2]
        r == (a[1] * 100) % a[2]
        up == 2 * r > a[2] \/ (2 * r = a[2] /\ q % 2 = 1)
    IN  Rat(IF up THEN q + 1 ELSE q, 100)

\* the loop tau_fit[i] = round(n, 2) of saveResults on a list of lifetimes
saveResults_round(tf) == [i \in 1..Len(tf) |-> Round2(tf[i])]

\* the loop on the matrix of a custom topology, a row rounded at a time
saveResults_roundRows(tf) ==
    [i \in 1..Len(tf) |-> [j \in 1..Len(tf[i]) |-> Round2(tf[i][j])]]

\* saveResults(model, tau, tau_fit, ...) at the end of calcDAS and calcSAS:
\* the lifetimes it was handed are rounded in place, which for the DAS and
\* the fixed topologies is the list Model.tau_fit itself; then self.labels
\* is read, which nothing assigns
Ctl_saveResults ==
    /\ pc = "saveResults"
    /\ tau_fit' = IF model \in Custom THEN tau_fit
                  ELSE <<saveResults_round(tau_fit[1])>>
    /\ ret' = <<<<IF model \in Custom THEN saveResults_roundRows(ret[1][1])
                  ELSE saveResults_round(ret[1][1]), ret[1][2]>>>>
    /\ Raise("saveResults", "AttributeError")
    /\ UNCHANGED <<results, inputs, M_lin, M_ones, K, n, tau_low, tau_high,
                   C_0, M, params, cur, best, nfev, runs, success, out,
                   bounds>>

\* the lifetimes the minimizer can return for the one parameter of a fit
FittedVals == {Rat(1, 8), Rat(1, 3), FromInt(2)}

\* the values minimize can return for a parameter: inside its bounds when
\* it is varied, its start value when it is not
FittedFor(p) ==
    {v \in FittedVals \cup {p.value} :
        IF p.vary THEN InBounds(v, p.min, p.max) ELSE v = p.value}

\* a Model object of the DAS right after findTau_fit returned: one
\* evaluation of getDifference was made, at the lifetime then returned
InitSave ==
    /\ model = "0"
    /\ Kin = <<>> /\ flatIn = <<>> /\ C_0in = <<>>
    /\ in_low = <<>> /\ in_high = <<>>
    /\ preparam \in {pp \in PreParams : Len(pp) >= 2}
    /\ pc = "fitted"
    /\ Direct
    /\ Loaded
    /\ InitData
    /\ Plain
    /\ M_lin = Unset
    /\ M_ones = Unset /\ K = Unset
    /\ tau_low = Unset /\ tau_high = Unset /\ C_0 = Unset
    /\ M_fit = Unset /\ D_fit = Unset /\ A_fit = Unset /\ residuals = Unset
    /\ last = NoCall
    /\ \E s \in BOOLEAN :
      \E v \in FittedFor(findTau_fit_params(preparam,
                getTauBounds(model, tau_low, tau_high, preparam).bounds).params[1]) :
        LET b == getTauBounds(model, tau_low, tau_high, preparam).bounds
            p == findTau_fit_params(preparam, b).params
            res == [success |-> s, values |-> <<v>>, nfev |-> 1]
            f == findTau_fit_result(model, M_ones, res)
            Mb == genE_tau(<<v>>, delays)
        IN  /\ bounds = <<b>> /\ params = p
            /\ cur = <<v>> /\ best = <<v>> /\ nfev = 1 /\ runs = 1
            /\ success = s /\ out = f.printed
            /\ tau_fit = <<f.tau_fit>> /\ ret = <<f.ret>>
            /\ M = <<Mb>> /\ n = <<1>>
            /\ difference = <<calcA_tau_minus(Mb, spectra, FALSE).ret>>

NextSave ==
    \/ Ctl_calcD_fit
    \/ Ctl_calcA_fit
    \/ Ctl_calcResiduals
    \/ Ctl_saveResults

SaveSpec == InitSave /\ [][NextSave]_vars

----------------------------------------------------------------------------
(* The closed-form amplitudes on matrices of numbers *)

\* exp(-d/tau) of a component over one step d of an equidistant delay
\* axis: 1 for an infinite lifetime, 0 for a vanishing one, 1/2 between
Ratios == {Zero, Rat(1, 2), FromInt(1)}

RECURSIVE Power(_, _)
Power(r, e) == IF e = 0 THEN FromInt(1) ELSE RatMul(r, Power(r, e - 1))

\* the exponential basis of the components rs at the delays 0, d, 2d, ...:
\* row i holds exp(-j d/tau_i) = rs[i]^j
GeomBasis(rs, m) == [i \in 1..Len(rs) |-> [j \in 1..m |-> Power(rs[i], j - 1)]]

\* the rows a spectrum can hold over m delays: rising, or a spike at the
\* first delay
DataRows(m) ==
    {[j \in 1..m |-> FromInt(j)],
     [j \in 1..m |-> IF j = 1 THEN FromInt(1) ELSE Zero]}

\* a Model object holding spectra and a basis
InitLstsq ==
    /\ \E m \in 1..MaxDelays :
        /\ \E k \in 1..MaxRows : \E rs \in [1..k -> Ratios] :
                M_v = GeomBasis(rs, m)
        /\ \E l \in 1..MaxLambdas : spectra_v \in [1..l -> DataRows(m)]
    /\ D_out = Unset /\ A_out = Unset /\ ulps = Unset
    /\ model = "0"
    /\ Kin = <<>> /\ flatIn = <<>> /\ preparam = <<>> /\ C_0in = <<>>
    /\ in_low = <<>> /\ in_high = <<>>
    /\ pc = "lstsq"
    /\ Direct
    /\ InitData
    /\ InitObject
    /\ Loaded

\* D_tau = calcD_tau(tau)
Lstsq_calcD_tau ==
    /\ pc = "lstsq"
    /\ LET r == calcD_tau(spectra_v, M_v)
       IN  IF r.err # ""
           THEN Raise("calcD_tau", r.err) /\ UNCHANGED D_out
           ELSE /\ D_out' = <<r.ret>>
                /\ pc' = "amplitudes"
                /\ last' = [op |-> "calcD_tau", arg |-> <<>>, err |-> "",
                            ret |-> r.ret]
    /\ UNCHANGED <<results, controller, windowing, spectra_v, M_v, A_out, ulps, model, Kin,
                   flatIn, preparam, in_low, in_high, C_0in, delays, spectra,
                   M_lin, attrs, fit>>

\* A_tau = calcA_tau(tau), which computes D_tau anew
Lstsq_calcA_tau ==
    /\ pc \in {"lstsq", "amplitudes"}
    /\ LET r == calcA_tau(spectra_v, M_v)
       IN  IF r.err # ""
           THEN Raise("calcA_tau", r.err) /\ UNCHANGED A_out
           ELSE /\ A_out' = <<r.ret>>
                /\ pc' = "product"
                /\ last' = [op |-> "calcA_tau", arg |-> <<>>, err |-> "",
                            ret |-> r.ret]
    /\ UNCHANGED <<results, controller, windowing, spectra_v, M_v, D_out, ulps, model, Kin,
                   flatIn, preparam, in_low, in_high, C_0in, delays, spectra,
                   M_lin, attrs, fit>>

NextLstsq ==
    \/ Lstsq_calcD_tau
    \/ Lstsq_calcA_tau

LstsqSpec == InitLstsq /\ [][NextLstsq]_vars

----------------------------------------------------------------------------
(* Controller: get_data, and calcDAS / calcSAS up to the Model they build *)

\* the file names get_data looks for, and two it does not set an attribute
\* from
FileNames ==
    {"lambda.txt", "field.txt", "delays.txt", "spectra.txt", "TA_Average.csv"}

\* get_data(path): the attributes set from the files listed in the folder;
\* ("lambda.txt" or "field.txt") is "lambda.txt", so field.txt sets none,
\* and no branch assigns csv_filename
get_data(files) ==
    [csv_filename |-> Unset,
     lambdas_filename |-> IF "lambda.txt" \in files THEN <<"lambda.txt">>
                          ELSE Unset,
     delays_filename |-> IF "delays.txt" \in files THEN <<"delays.txt">>
                         ELSE Unset,
     spectra_filename |-> IF "spectra.txt" \in files THEN <<"spectra.txt">>
                          ELSE Unset]

\* the parameters of Model.__init__ after self
Model_init_params ==
    <<"csv_filename", "d_limits", "l_limits", "model", "opt_method",
      "ivp_method">>

\* Model(*args): the call binds the positional arguments to the parameters
\* of __init__ and raises TypeError when there are too many or too few
Model_new(args) ==
    IF Len(args) # Len(Model_init_params)
    THEN [err |-> "TypeError"]
    ELSE [err |-> ""]

\* the arguments calcDAS and calcSAS hand to Model: the three file names of
\* the Controller, the limits, the model and the two methods (calcDAS hands
\* None for ivp_method); reading an attribute get_data never set raises
\* AttributeError
Model_args(c, mdl, ivp) ==
    IF Unset \in {c.delays_filename, c.spectra_filename, c.lambdas_filename}
    THEN [err |-> "AttributeError", args |-> <<>>]
    ELSE [err |-> "",
          args |-> <<c.delays_filename[1], c.spectra_filename[1],
                     c.lambdas_filename[1], "d_limits", "l_limits", mdl,
                     "opt_method", ivp>>]

\* a Controller built on a folder, and the request of its caller
InitController ==
    /\ listing \in SUBSET FileNames
    /\ con = get_data(listing)
    /\ model \in ModelSet
    /\ preparam \in PreParams
    /\ Kin = <<>> /\ flatIn = <<>> /\ C_0in = <<>>
    /\ in_low = <<>> /\ in_high = <<>>
    /\ pc = "controller"
    /\ InitData
    /\ InitObject
    /\ Loaded
    /\ Plain

\* the Model that calcDAS and calcSAS build first: the call raises, or the
\* calls on the Model object follow
BuildModel(op, mdl, ivp) ==
    LET a == Model_args(con, mdl, ivp)
        m == Model_new(a.args)
    IN  IF a.err # ""
        THEN Raise(op, a.err)
        ELSE IF m.err # ""
             THEN Raise(op, m.err)
             ELSE pc' = FirstStep(mdl) /\ UNCHANGED last

\* calcDAS(preparam, d_limits, l_limits, opt_method): the model is 0
Call_calcDAS ==
    /\ pc = "controller"
    /\ model = "0"
    /\ BuildModel("calcDAS", "0", NoneVal)
    /\ UNCHANGED <<results, inputs, M_lin, attrs, fit>>

\* calcSAS(K, preparam, C_0, d_limits, l_limits, model, ...)
Call_calcSAS ==
    /\ pc = "controller"
    /\ BuildModel("calcSAS", model, "ivp_method")
    /\ UNCHANGED <<results, inputs, M_lin, attrs, fit>>

NextController ==
    \/ Call_calcDAS
    \/ Call_calcSAS

ControllerSpec == InitController /\ [][NextController]_vars

----------------------------------------------------------------------------
(* Properties of the codec and of the matrix builder (CodecSpec) *)

\* the set cells of a mask in scan order
MaskCells(ones) == SelectSeq(CellSeq(Dim(ones)), LAMBDA p : ones[p[1]][p[2]] = 1)

\* the populated cells of a custom matrix in scan order
Populated(m) == SelectSeq(CellSeq(Dim(m)), LAMBDA p : m[p[1]][p[2]] # Zero)

\* the sum of the entries of column j outside the diagonal
OffDiagColumnSum(m, j) ==
    SumSeq([i \in 1..Dim(m) |-> IF i = j THEN Zero ELSE m[i][j]])

\* the sum of the flat values that went to the cells of column j
ColumnValueSum(cells, flat, j) ==
    SumSeq([a \in 1..Len(cells) |-> IF cells[a][2] = j THEN flat[a] ELSE Zero])

\* the last row of the custom matrix (the sink) has a populated cell
SinkRowPopulated(m) == \E j \in 1..Dim(m) : m[Dim(m)][j] # Zero

\* getK returned a matrix for a flat vector as long as the mask has set cells
GetKReturned ==
    /\ last.op = "getK" /\ last.err = ""
    /\ M_ones # Unset
    /\ Len(last.arg) = Len(MaskCells(M_ones[1]))

\* C1: for a custom topology the matrix K that getK returns for a vector of
\* positive lifetimes of matching length has, in every column but the last,
\* off-diagonal entries that sum to minus the diagonal entry, branching
\* columns included.
C1_ColumnSum ==
    GetKReturned =>
        \A j \in 1..(Dim(last.ret) - 1) :
            OffDiagColumnSum(last.ret, j) = RatNeg(last.ret[j][j])

\* regenM returned for the flat vector that getM_lin made of the custom matrix
RoundTrip ==
    /\ last.op = "regenM" /\ last.err = ""
    /\ last.arg = M_lin[1]
    /\ SinkRowPopulated(Kin)

\* C7 as claimed: after the round trip every cell is non-zero exactly when it
\* is non-zero in the custom matrix.
C7_SamePattern ==
    RoundTrip =>
        \A p \in CellSet(Dim(Kin)) :
            (last.ret[p[1]][p[2]] # Zero) <=> (Kin[p[1]][p[2]] # Zero)

\* C7 amended: after the round trip every cell outside the diagonal, and the
\* bottom-right cell, is non-zero exactly when it is non-zero in the custom
\* matrix; the diagonal cell of a species j other than the last is non-zero
\* exactly when column j of the custom matrix has a populated cell outside
\* the diagonal.
C7_ConversionPattern ==
    RoundTrip =>
        LET d == Dim(Kin)
        IN  \A i, j \in 1..d :
                IF i = j /\ j # d
                THEN (last.ret[j][j] # Zero)
                        <=> (\E r \in 1..d : r # j /\ Kin[r][j] # Zero)
                ELSE (last.ret[i][j] # Zero) <=> (Kin[i][j] # Zero)

\* the round trip ran on a matrix with a populated column and an empty diagonal
C7_Witness ==
    /\ RoundTrip
    /\ \E j \in 1..(Dim(Kin) - 1) :
            Kin[j][j] = Zero /\ \E r \in 1..Dim(Kin) : r # j /\ Kin[r][j] # Zero

\* the populated cells of m in scan order, without the diagonal cells in Skip
CellsWithout(m, Skip) ==
    SelectSeq(Populated(m), LAMBDA p : ~(p[1] = p[2] /\ p[1] \in Skip))

\* getM_lin emitted exactly the cells listed, as absolute values, and set the
\* mask at exactly these cells
EmittedAre(cells) ==
    /\ last.ret = [a \in 1..Len(cells) |-> RatAbs(Kin[cells[a][1]][cells[a][2]])]
    /\ \A p \in CellSet(Dim(Kin)) :
            (M_ones[1][p[1]][p[2]] = 1) <=> (\E a \in 1..Len(cells) : cells[a] = p)

\* C8 as claimed: getM_lin returns the populated cells in row-major order,
\* skipping the zeros and the diagonal cell of the last species, and the mask
\* holds exactly the cells emitted.
C8_SkipsLastDiagonal ==
    last.op = "getM_lin" => EmittedAre(CellsWithout(Kin, {Dim(Kin)}))

\* C8 amended: getM_lin returns one lifetime per populated cell, the cell's
\* absolute value as 1/|1/cell| computes it, in row-major order, skipping the
\* zeros and the diagonal cell of every species but the last (the diagonal
\* cell of the last species is kept), and the mask holds exactly the cells
\* emitted.
C8_SkipsInnerDiagonals ==
    last.op = "getM_lin" => EmittedAre(CellsWithout(Kin, 1..(Dim(Kin) - 1)))

\* getM_lin ran on a matrix with a populated bottom-right cell, a populated
\* inner diagonal cell
C8_Witness ==
    /\ last.op = "getM_lin"
    /\ Kin[Dim(Kin)][Dim(Kin)] # Zero
    /\ Kin[1][1] # Zero
    /\ Len(last.ret) = 1

\* C9: regenM puts flat value a into the a-th set cell of the mask in scan
\* order, subtracts it from the diagonal cell of its column unless the column
\* is the last, and negates the bottom-right cell at the end; with positive
\* values every diagonal cell is <= 0 and each diagonal cell but the last is
\* minus the sum of the populated cells of its column.
C9_RegenM ==
    (last.op = "regenM" /\ last.err = "") =>
        LET ones == M_ones[1]
            d == Dim(ones)
            cells == MaskCells(ones)
            R == last.ret
        IN  /\ \A a \in 1..Len(cells) :
                    R[cells[a][1]][cells[a][2]] =
                        IF cells[a] = <<d, d>> THEN RatNeg(last.arg[a])
                        ELSE last.arg[a]
            /\ \A j \in 1..(d - 1) :
                    R[j][j] = RatNeg(ColumnValueSum(cells, last.arg, j))
            /\ \A j \in 1..d : RatLeq(R[j][j], Zero)
            /\ \A i, j \in 1..d :
                    (ones[i][j] = 0 /\ i # j) => R[i][j] = Zero
            /\ ones[d][d] = 0 => R[d][d] = Zero

\* regenM returned for a mask with a set cell in a column other than the last
\* and a set bottom-right cell
C9_Witness ==
    /\ last.op = "regenM" /\ last.err = ""
    /\ M_ones[1][Dim(M_ones[1])][Dim(M_ones[1])] = 1
    /\ \E j \in 1..(Dim(M_ones[1]) - 1) : \E i \in 1..Dim(M_ones[1]) :
            M_ones[1][i][j] = 1

\* C10: regenM raises whenever the flat vector is shorter or longer than the
\* number of set cells of the mask, and returns no matrix then.
C10_ShapeMismatch ==
    (last.op = "regenM" /\ M_ones # Unset
        /\ Len(last.arg) # Len(MaskCells(M_ones[1])))
    => (last.err # "" /\ last.ret = <<>>)

----------------------------------------------------------------------------
(* Properties of the fit (Spec) *)

\* the bounds findTau_fit reads for the current preparam
BoundsNow == getTauBounds(model, tau_low, tau_high, preparam).bounds

\* C2: the minimizer gets one parameter per entry of preparam: every basis of
\* an iteration is built from len(preparam) lifetimes, and for a fixed
\* topology or DAS the list returned has len(preparam) entries.
C2_OnePerEntry ==
    /\ pc = "minimize" => Len(params) = Len(preparam)
    /\ (pc = "minimize" /\ nfev >= 1) => Len(M[1].tau) = Len(preparam)
    /\ (pc = "fitted" /\ model \notin Custom) => Len(ret[1][1]) = Len(preparam)

\* C3: every entry of preparam flagged as not varied has, at its index of
\* the fitted vector, the value preparam gave it.
C3_FixedKept ==
    pc = "fitted" =>
        \A i \in 1..Len(preparam) :
            preparam[i][2] = FALSE =>
                (i <= Len(tau_fit[1]) /\ tau_fit[1][i] = preparam[i][1])

\* C4: the parameter made of preparam[i] carries the vary flag of preparam[i]
\* and the pair bounds[i] of getTauBounds as its min and max, for every i.
C4_BoundsPerParameter ==
    pc = "minimize" =>
        \A k \in 1..Len(params) :
            /\ params[k].vary = preparam[params[k].src][2]
            /\ params[k].min = BoundsNow[params[k].src][1]
            /\ params[k].max = BoundsNow[params[k].src][2]

\* C5: when the minimizer reports non-success, the value findTau_fit returns
\* differs from the value it returns for the same result reported as a
\* success.
C5_FailureFlagged ==
    (pc = "fitted" /\ success = FALSE) =>
        ret[1] # findTau_fit_result(model, M_ones,
                    [success |-> TRUE, values |-> best, nfev |-> nfev]).ret

\* the states of a fit
Running == pc = "minimize"
Converged == pc = "fitted" /\ success
Failed == pc = "fitted" /\ ~success
\* the invocation of findTau_fit is over: it returned, or it raised
Ended == pc = "fitted" \/ (pc = "raised" /\ last.op = "findTau_fit")

\* C6: every invocation of findTau_fit runs the minimizer exactly once; once
\* the minimizer has returned the fit is Converged or Failed and never
\* Running again.
C6_FitLifecycle ==
    /\ [](Ended => runs = 1)
    /\ [][(Converged \/ Failed) => ~Running']_vars
    /\ [][(Running /\ pc' = "fitted") => (Converged' <=> success')]_vars

C19_Recomputed ==
    /\ M_fit # Unset => M_fit[1].tau = tau_fit[1]
    /\ D_fit # Unset => D_fit[1].M = M_fit[1]
    /\ A_fit # Unset => (A_fit[1].D = D_fit[1] /\ A_fit[1].M = M_fit[1])
    /\ residuals # Unset =>
            /\ residuals[1].kind = "minus"
            /\ residuals[1].left = A_fit[1]
            /\ residuals[1].right = "spectra"
            /\ residuals[1].right = difference[1].right
            /\ difference[1].left.kind = "A"

\* the residuals were computed after a fit whose last evaluation tried other
\* lifetimes than the fitted ones
C19_Witness ==
    /\ residuals # Unset
    /\ M[1].tau # tau_fit[1]

----------------------------------------------------------------------------
(* Properties of the Controller (ControllerSpec) *)

\* a call of calcDAS or calcSAS has ended
CallEnded == pc # "controller" /\ last.op \in {"calcDAS", "calcSAS"}

\* C24: after a Controller is constructed on a data folder its attribute
\* csv_filename is set and is the path of the CSV data file of the folder.
C24_CsvFilename ==
    "TA_Average.csv" \in listing => con.csv_filename = <<"TA_Average.csv">>

\* the folder holds the three files the Controller reads
CompleteFolder == {"lambda.txt", "delays.txt", "spectra.txt"} \subseteq listing

\* C20: on a folder that holds the data, calcDAS and calcSAS return a
\* reconstructed spectra matrix and a residual matrix that both have the
\* shape of the windowed spectra matrix, n_wavelengths x n_delays, for any
\* number of components.
C20_ResultShapes ==
    (CompleteFolder /\ CallEnded) =>
        /\ last.err = ""
        /\ A_fit # Unset /\ residuals # Unset
        /\ A_fit[1].rows = spectra.rows /\ A_fit[1].cols = spectra.cols
        /\ residuals[1].rows = spectra.rows
        /\ residuals[1].cols = spectra.cols

----------------------------------------------------------------------------
(* Properties of the bounds policy (BoundsSpec) *)

\* the bound list l was supplied with a length other than that of tau
Mismatch(l, tau) == l # <<>> /\ Len(l) # Len(tau)

\* setTauBounds was called with a bound list of the wrong length
MismatchedCall ==
    /\ last.op = "setTauBounds"
    /\ Mismatch(last.arg[1], last.arg[3]) \/ Mismatch(last.arg[2], last.arg[3])

\* C11: for a kinetic model, when the supplied tau_low or tau_high differs in
\* length from the number of parameters, setTauBounds / getTauBounds signal an
\* error: getTauBounds never returns a bounds list after such a call.
C11_ShapeMismatch ==
    (model \in Kinetic /\ MismatchedCall) => pc # "bounded"

\* C12: for a kinetic model, after setTauBounds every lower bound that was
\* unspecified (empty list or None) or 0 is 0.01, every other lower bound is
\* the user's, every unspecified upper bound is None; getTauBounds then
\* returns the pairs (tau_low[i], tau_high[i]) in order and no lower bound
\* returned is 0 or None.
C12_BoundsDefaults ==
    (model \in Kinetic /\ last.op = "setTauBounds") =>
        LET lo == last.arg[1]
            hi == last.arg[2]
            tau == last.arg[3]
            nlo == IF lo = <<>> THEN Len(tau) ELSE Len(lo)
            nhi == IF hi = <<>> THEN Len(tau) ELSE Len(hi)
        IN  /\ Len(tau_low[1]) = nlo /\ Len(tau_high[1]) = nhi
            /\ \A i \in 1..nlo :
                    tau_low[1][i] =
                        IF lo = <<>> THEN Eps
                        ELSE IF lo[i] = Zero \/ lo[i] = NoneVal THEN Eps
                        ELSE lo[i]
            /\ \A i \in 1..nhi :
                    tau_high[1][i] = IF hi = <<>> THEN NoneVal ELSE hi[i]
            /\ pc = "bounded" =>
                    /\ Len(bounds[1]) = Min(nlo, nhi)
                    /\ \A i \in 1..Len(bounds[1]) :
                            /\ bounds[1][i] = <<tau_low[1][i], tau_high[1][i]>>
                            /\ bounds[1][i][1] \notin {Zero, NoneVal}

\* getTauBounds returned for a kinetic model whose caller passed a lower
\* bound of 0 next to one that is not 0, and no upper bounds
C12_Witness ==
    /\ model \in Kinetic /\ pc = "bounded" /\ last.op = "setTauBounds"
    /\ last.arg[2] = <<>>
    /\ \E i, j \in 1..Len(last.arg[1]) :
            /\ last.arg[1][i] = Zero
            /\ last.arg[1][j] \notin {Zero, NoneVal}
    /\ Len(bounds[1]) >= 2

\* C13: for the DAS model getTauBounds(tau) returns len(tau) pairs, each
\* (0.01, None), whether or not setTauBounds stored bounds before.
C13_DASBounds ==
    (model = "0" /\ pc = "bounded") =>
        bounds[1] = [i \in 1..Len(flatIn) |-> <<Eps, NoneVal>>]

\* getTauBounds returned for the DAS model after setTauBounds stored lists of
\* another length
C13_Witness ==
    /\ model = "0" /\ pc = "bounded"
    /\ MismatchedCall
    /\ Len(flatIn) >= 2

----------------------------------------------------------------------------
(* Properties of the basis generator and of the reconstructor (BasisSpec) *)

\* a lifetime that stands for the rate 0: the entry 0 that getK and getM_lin
\* read as "no decay", or an infinite lifetime
ZeroRate(t) == t = Zero \/ t = Inf

\* C14: in the exponential basis the row of a component whose rate is 0 is 1
\* at every delay (no entry of it is 0, inf or nan, nothing is divided by 0);
\* a vector of zero-rate components gives the all-ones matrix.
C14_ZeroRateRow ==
    (last.op = "getM" /\ last.err = "" /\ last.ret.kind = "E_tau") =>
        \A i \in 1..Len(last.arg) :
            ZeroRate(last.arg[i]) =>
                \A j \in 1..Len(delays) : last.ret.E[i][j] = <<0, 1, 1>>

\* C15: getK turns every lifetime into a rate with a guarded division: 0
\* becomes the rate 0, never inf or nan, every other lifetime t becomes 1/t;
\* for a fixed topology the rates of the list, for a custom one the cells of
\* the re-inflated matrix.
C15_GuardedRates ==
    (last.op = "getK" /\ last.err = "") =>
        /\ \A i, j \in 1..Dim(last.ret) : last.ret[i][j][2] # 0
        /\ last.ret =
            IF model \in Custom
            THEN getK_custom(regenM(M_ones, last.arg).ret)
            ELSE Models_getK([a \in 1..Len(last.arg) |->
                                GuardedDivide(last.arg[a])])

\* C16: solveDiff (and getM on top of it) never returns the matrix of a
\* solver that failed: a basis returned for positive lifetimes has one
\* column per delay.
C16_IntegrationFailure ==
    (last.op = "getM" /\ last.err = "" /\ last.ret.kind = "C_t"
        /\ \A a \in 1..Len(last.arg) : last.arg[a] \in TauVals) =>
        last.ret.cols = Len(delays)

\* the basis has two rows of the same lifetime
TwoAlike(Mb) ==
    /\ Mb.kind = "E_tau"
    /\ \E i, k \in 1..Len(Mb.tau) : i # k /\ Mb.tau[i] = Mb.tau[k]

\* C17: on a basis with two identical rows calcD_tau raises and returns no
\* amplitude matrix.
C17_SingularBasis ==
    (last.op = "calcD_tau" /\ TwoAlike(M[1])) =>
        (last.err # "" /\ last.ret = <<>>)


----------------------------------------------------------------------------
(* Properties of the frame of a fit (Spec) *)

\* C21: a fit leaves the argument objects of its caller with the contents
\* they had: no step of calcDAS / calcSAS changes tau_low, tau_high, K, C_0
\* or preparam (for 'custom matrix' the name preparam is bound to a new
\* list in calcSAS, which is not a change of the caller's list).
C21_ArgumentsKept ==
    [][/\ in_low' = in_low /\ in_high' = in_high
       /\ Kin' = Kin /\ C_0in' = C_0in
       /\ model # "custom matrix" => preparam' = preparam]_vars


----------------------------------------------------------------------------
(* Properties of the closed-form amplitudes (LstsqSpec) *)

\* the basis has full row rank: M @ M.T is regular
FullRowRank(Mb) == Det(MatMulNum(Mb, Transpose(Mb)).ret) # Zero

\* the residual spectra - D @ M
ResidualOf(D) == MatSubNum(spectra_v, MatMulNum(D, M_v).ret)

\* the amplitude matrix of n wavelengths and k components that is 0
ZeroAmplitudes(nl, nc) == [l \in 1..nl |-> [i \in 1..nc |-> Zero]]

\* amplitude matrices of the shape of D that differ from it in one row
OtherAmplitudes(D) ==
    {[D EXCEPT ![l] = d] :
        l \in 1..NRows(D),
        d \in [1..NCols(D) -> {FromInt(-1), Zero, FromInt(1)}]}

\* D solves the normal equations, and no other amplitude matrix leaves a
\* smaller residual
LeastSquares(D) ==
    /\ MatMulNum(D, MatMulNum(M_v, Transpose(M_v)).ret).ret
            = MatMulNum(spectra_v, Transpose(M_v)).ret
    /\ Frobenius2(MatMulNum(ResidualOf(D), Transpose(M_v)).ret) = Zero
    /\ \E least \in {Frobenius2(ResidualOf(D))} :
            \A D1 \in OtherAmplitudes(D) :
                RatLeq(least, Frobenius2(ResidualOf(D1)))

\* C22: for a basis M of full row rank calcD_tau returns
\* D = A M^T (M M^T)^-1 and calcA_tau returns D M, and the residual A - D M
\* is no larger in the Frobenius norm than A - D' M for any other amplitude
\* matrix D' of the same shape.
C22_LeastSquares ==
    FullRowRank(M_v) =>
        /\ pc # "raised"
        /\ D_out # Unset =>
                /\ NRows(D_out[1]) = NRows(spectra_v)
                /\ NCols(D_out[1]) = NRows(M_v)
                /\ LeastSquares(D_out[1])
        /\ A_out # Unset =>
                /\ A_out[1]
                        = MatMulNum(calcD_tau(spectra_v, M_v).ret, M_v).ret
                /\ D_out # Unset => A_out[1] = MatMulNum(D_out[1], M_v).ret
                /\ \E R \in {MatSubNum(spectra_v, A_out[1])} :
                    /\ Frobenius2(MatMulNum(R, Transpose(M_v)).ret) = Zero
                    /\ \E least \in {Frobenius2(R)} :
                        \A D1 \in OtherAmplitudes(
                                ZeroAmplitudes(NRows(spectra_v), NRows(M_v))) :
                            RatLeq(least, Frobenius2(ResidualOf(D1)))

\* amplitudes of two components were computed for spectra the basis does
\* not reproduce, and the product with the basis was formed
C22_Witness ==
    /\ D_out # Unset /\ A_out # Unset
    /\ NRows(M_v) >= 2
    /\ Frobenius2(ResidualOf(D_out[1])) # Zero


----------------------------------------------------------------------------
(* The end-to-end scenario of a fit with one parameter (Spec) *)

\* a DAS fit with exactly one parameter, varied
ScenarioA == model = "0" /\ Len(preparam) = 1 /\ preparam[1][2]

\* C23: a DAS fit with exactly one varied parameter and the bounds
\* (0.01, None) runs to completion and returns a fitted vector of one
\* element.
C23_ScenarioA ==
    ScenarioA =>
        /\ pc # "raised"
        /\ bounds # Unset => bounds[1] = <<<<Eps, NoneVal>>>>
        /\ ret # Unset => Len(ret[1][1]) = 1


----------------------------------------------------------------------------
(* The frame of the structural mask (ReportSpec) *)

\* C25: the mask M_ones is written by getM_lin only: no other step of a
\* fit changes it, and every step after getM_lin finds the mask that
\* getM_lin captured from the custom matrix before the fit started.
C25_MaskFrame ==
    [][/\ M_ones' # M_ones =>
            (pc = "getM_lin" /\ M_ones' = <<getM_lin_ones(Kin)>>)
       /\ M_ones # Unset => M_ones' = <<getM_lin_ones(Kin)>>]_vars

\* the results of a fit of a custom topology were recomputed after two
\* evaluations of getDifference, the mask that of getM_lin
C25_Witness ==
    /\ model \in Custom /\ M_fit # Unset /\ nfev >= 2
    /\ M_ones = <<getM_lin_ones(Kin)>>


----------------------------------------------------------------------------
(* The initial concentrations during a fit *)

\* C26: setInitialConcentrations stores the user's vector unchanged, or for
\* an empty list a vector of length n, 1 for the first species and 0 for
\* the others; with the default the stored vector has one entry per row of
\* the K that every solveDiff of the fit integrates.
C26_OnePerRow ==
    /\ (C_0 # Unset /\ C_0in # <<>>) => C_0[1] = C_0in
    /\ (C_0 # Unset /\ C_0in = <<>> /\ K # Unset) =>
          /\ Len(C_0[1]) = Dim(K[1])
          /\ \A i \in 1..Len(C_0[1]) :
                C_0[1][i] = IF i = 1 THEN FromInt(1) ELSE Zero


----------------------------------------------------------------------------
(* Written before read on the paths of calcSAS *)

\* C27: on every path through calcSAS each attribute is written before it
\* is first read: the mask before the first regenM (in getK), n before
\* setInitialConcentrations, C_0 before the first solveDiff, tau_low and
\* tau_high before getTauBounds in findTau_fit; no call of a kinetic fit
\* ends on an attribute that was never assigned.
C27_WrittenBeforeRead ==
    model \in Kinetic =>
        /\ (pc = "getK" /\ model \in Custom) => M_ones # Unset
        /\ pc = "setInitialConcentrations" => n # Unset
        /\ pc = "solveDiff" => (C_0 # Unset /\ K # Unset)
        /\ pc = "findTau_fit" => (tau_low # Unset /\ tau_high # Unset)
        /\ pc \in {"minimize", "fitted"} =>
              (C_0 # Unset /\ (model \in Custom => M_ones # Unset))
        /\ last.err # "AttributeError"

\* a fit of a custom topology has evaluated getDifference, every attribute
\* read on the way assigned
C27_Witness ==
    /\ model \in Custom /\ pc = "minimize" /\ nfev >= 1
    /\ M_ones # Unset /\ n # Unset /\ C_0 # Unset
    /\ tau_low # Unset /\ tau_high # Unset


----------------------------------------------------------------------------
(* The value round trip of the codec (RoundSpec) *)

\* the place in the flat vector of the set cell <<i, j>> of a mask
FlatIndex(ones, i, j) ==
    LET d == Dim(ones)
    IN  Cardinality({p \in CellSet(d) :
            /\ ones[p[1]][p[2]] = 1
            /\ (p[1] - 1) * d + p[2] <= (i - 1) * d + j})

\* the number of set cells of a mask
SetCells(ones) ==
    Cardinality({p \in CellSet(Dim(ones)) : ones[p[1]][p[2]] = 1})

\* C28: for a custom matrix M of positive lifetimes regenM(getM_lin(M))
\* holds in every cell off the diagonal exactly the value M holds there,
\* and the flat vector of getM_lin has as many entries as the stored mask
\* has set cells.
C28_ValueRoundTrip ==
    pc = "regenerated" =>
        /\ last.err = ""
        /\ Len(M_lin[1]) = SetCells(M_ones[1])
        /\ \A i \in 1..Dim(Kin) : \A j \in 1..Dim(Kin) :
              i # j =>
                /\ last.ret[i][j] = Kin[i][j]
                /\ M_ones[1][i][j] = 1 =>
                        ulps[1][FlatIndex(M_ones[1], i, j)] = 0


----------------------------------------------------------------------------
(* The window of the data (WindowSpec) *)

\* the axis value nearest to a limit, None standing for the minimum (the
\* lower limit) or the maximum (the upper limit) of the axis
NearestTo(lim, values, k) ==
    values[ArgMinAbs(values, findBorders_limits(lim, values)[k]) + 1]

\* C29: for a rising or falling axis and any limits the window selected by
\* findBordersbyCSV and initDatabyCSV is not empty and holds the axis value
\* nearest to the lower limit, the one nearest to the upper limit, and
\* every axis value between the two.
C29_Window ==
    pc = "loaded" =>
        LET w == {window[1][i] : i \in 1..Len(window[1])}
            lo == NearestTo(limits, axis, 1)
            hi == NearestTo(limits, axis, 2)
        IN  /\ window[1] # <<>>
            /\ lo \in w /\ hi \in w
            /\ \A i \in 1..Len(axis) :
                  (\/ RatLeq(lo, axis[i]) /\ RatLeq(axis[i], hi)
                   \/ RatLeq(hi, axis[i]) /\ RatLeq(axis[i], lo))
                  => axis[i] \in w


----------------------------------------------------------------------------
(* The lifetimes returned and the results (SaveSpec) *)

\* C30: for the DAS and the fixed topologies the lifetimes calcDAS and
\* calcSAS return, and Model.tau_fit, are the values from which the
\* returned D_fit, spec and res were computed: saving the results changes
\* neither of them.
C30_ReturnedLifetimes ==
    (model \notin Custom /\ M_fit # Unset /\ D_fit # Unset) =>
        /\ D_fit[1].M = M_fit[1]
        /\ ret[1][1] = M_fit[1].tau
        /\ tau_fit[1] = M_fit[1].tau

====
